---- MODULE Spec2Model ----
(***************************************************************************)
(* Location assignment (pseudo-regalloc) of src/backend/locations.rs:      *)
(* Locations::compute and the Allocator it drives.  One behaviour is one   *)
(* call of Locations::compute on one serialized body: the run eliminator   *)
(* loop, the span (liveness) loop, the two sorts and the sweep loop, one   *)
(* step per loop iteration.  Stream positions, sub-indices and local       *)
(* numbers are 0-based as in the source; TLA+ sequences are 1-based, so    *)
(* position p of a vector v is v[p + 1].                                   *)
(***************************************************************************)
EXTENDS Integers, Sequences, FiniteSets, TLC

\* ------------------------------------------------------------------ bounds
\* Longest serialized body drawn as input (operators.len()).
MaxLen == 4

\* ------------------------------------------------------------------ inputs
\* SSA values of the function body.
Values == {"X", "Y", "Z"}

\* f.types, one table per drawn function body: the primitive types of each
\* value's components.  TableA has three single-component values of two
\* types; TableB has a two-component value and every component of one type.
TableA == [v \in Values |-> IF v = "Y" THEN <<"I64">> ELSE <<"I32">>]
TableB == [v \in Values |->
             IF v = "X" THEN <<"I32", "I32">>
             ELSE IF v = "Y" THEN <<"I32">> ELSE <<>>]
TypeTables == {TableA, TableB}

\* f.locals.len(): the number of locals the body already declares.
LocalCounts == {0, 2}

\* The (value, sub-index) pairs a type table has.
Pairs(types) == {p \in Values \X {0, 1} : p[2] < Len(types[p[1]])}

\* SerializedOperator::Set(v, i) and SerializedOperator::Get(v, i).
SetOp(v, i) == [kind |-> "Set", value |-> v, index |-> i, reads |-> {}, writes |-> {}]
GetOp(v, i) == [kind |-> "Get", value |-> v, index |-> i, reads |-> {}, writes |-> {}]
\* Any other operator shape: opaque but for the pairs its visitor yields.
OtherOp(r, w) == [kind |-> "Other", value |-> "X", index |-> 0, reads |-> r, writes |-> w]

\* The operators a body over `types` is drawn from: a Set and a Get of every
\* pair, an operator touching no local, one writing two pairs (a block
\* header's parameters) and one reading two pairs (a branch's arguments).
Operators(types) ==
    {SetOp(p[1], p[2]) : p \in Pairs(types)} \cup
    {GetOp(p[1], p[2]) : p \in Pairs(types)} \cup
    {OtherOp({}, {})} \cup
    {OtherOp({}, {<<"X", 0>>, <<"Y", 0>>}), OtherOp({<<"X", 0>>, <<"Y", 0>>}, {})}

\* All bodies of at most n operators.
Streams(types, n) == UNION {[1..k -> Operators(types)] : k \in 0..n}

\* The six-operator body of the end-to-end example (TableA types).
ExampleStream ==
    <<SetOp("X", 0), SetOp("Y", 0), GetOp("X", 0),
      SetOp("Z", 0), GetOp("Y", 0), GetOp("Z", 0)>>

\* op.visit_value_locals: the pairs an operator reads and the pairs it writes.
VisitReads(op) ==
    IF op.kind = "Get" THEN {<<op.value, op.index>>}
    ELSE IF op.kind = "Other" THEN op.reads ELSE {}
VisitWrites(op) ==
    IF op.kind = "Set" THEN {<<op.value, op.index>>}
    ELSE IF op.kind = "Other" THEN op.writes ELSE {}

\* ------------------------------------------------------------------- state
VARIABLES
    f,            \* the FunctionBody: [types, locals]
    operators,    \* body.operators
    phase,        \* where compute is: elim, spans, sweep, done, panic
    index,        \* the enumerate() cursor of the loop under way
    start,        \* eliminator: Option<usize>, <<>> is None and <<n>> is Some(n)
    current_run,  \* eliminator: the pending Sets
    delete,       \* locations.delete
    next_delete,  \* span loop: cursor into delete
    spans,        \* Allocator::spans, a map (value, index) -> ValueSpan
    starts,       \* Allocator::starts
    ends,         \* Allocator::ends
    start_idx,    \* sweep cursor
    end_idx,      \* sweep cursor
    freelist,     \* Allocator::freelist, a map type -> Vec<LocalId>
    locations,    \* locations.locations, a map (value, index) -> LocalId
    new_locals,   \* locations.new_locals
    abandoned,    \* history: positions of runs the eliminator abandoned
    run,          \* which call of compute this is (1 or 2)
    first,        \* the first call's result and sort orders, once it returned
    events        \* history: the calls of handle_start and handle_end, in order

vars == <<f, operators, phase, index, start, current_run, delete, next_delete,
          spans, starts, ends, start_idx, end_idx, freelist, locations,
          new_locals, abandoned, run, first, events>>

\* Position p of a 0-based vector.
At(v, p) == v[p + 1]
\* The elements of a vector.
Range(v) == {v[k] : k \in 1..Len(v)}
\* map.values().
MapValues(m) == {m[k] : k \in DOMAIN m}
\* An empty FxHashMap.
EmptyMap == [x \in {} |-> 0]
\* map.insert(k, v).
Insert(m, k, v) == [x \in DOMAIN m \cup {k} |-> IF x = k THEN v ELSE m[x]]

\* f.types[value.index()][multi_value_index].
TypeOf(pair) == At(f.types[pair[1]], pair[2])

\* -------------------------------------------------------------------- Init
\* Locations::compute: a fresh Locations and a fresh Allocator.
FreshState ==
    /\ phase = "elim"
    /\ index = 0
    /\ start = <<>>
    /\ current_run = <<>>
    /\ delete = <<>>
    /\ next_delete = 0
    /\ spans = EmptyMap
    /\ starts = <<>>
    /\ ends = <<>>
    /\ start_idx = 0
    /\ end_idx = 0
    /\ freelist = EmptyMap
    /\ locations = EmptyMap
    /\ new_locals = <<>>

Init ==
    /\ f \in [types : TypeTables, locals : LocalCounts]
    /\ operators \in Streams(f.types, MaxLen) \cup
                     (IF f.types = TableA THEN {ExampleStream} ELSE {})
    /\ FreshState
    /\ abandoned = {}
    /\ run = 1
    /\ first = <<>>
    /\ events = <<>>

\* ------------------------------------------------- the run eliminator loop
\* MatchesTop without the comparison with the top of the run: any Get pops.
MatchesTopAnyGet(op) ==
    /\ op.kind = "Get"
    /\ start # <<>>
    /\ current_run # <<>>

\* The guard of the match arm that pops: a Get of the pair on top of an open run.
MatchesTop(op) ==
    /\ op.kind = "Get"
    /\ start # <<>>
    /\ current_run # <<>>
    /\ current_run[Len(current_run)] = SetOp(op.value, op.index)

\* RunPositions with the range's last position left out (start..index).
RunPositionsExclusive(from, to) == [k \in 1..(to - from) |-> from + k - 1]

\* The positions start.unwrap()..=index, in order.
RunPositions(from, to) == [k \in 1..(to - from + 1) |-> from + k - 1]

\* AbandonRun with the run left open: the arm only moves on.
AbandonRunKeepsRun ==
    /\ current_run' = current_run
    /\ start' = start
    /\ delete' = delete
    /\ abandoned' = abandoned \cup (IF start = <<>> THEN {} ELSE start[1]..index)

\* The catch-all arm: current_run.clear(); start = None.
AbandonRun ==
    /\ current_run' = <<>>
    /\ start' = <<>>
    /\ delete' = delete
    /\ abandoned' = abandoned \cup (IF start = <<>> THEN {} ELSE start[1]..index)

\* One iteration of the first loop over operators.
EliminateStep ==
    /\ phase = "elim"
    /\ index < Len(operators)
    /\ LET operator == At(operators, index) IN
        IF operator.kind = "Set" THEN
            /\ start' = IF start = <<>> THEN <<index>> ELSE start
            /\ current_run' = Append(current_run, operator)
            /\ UNCHANGED <<delete, abandoned>>
        ELSE IF MatchesTop(operator) THEN
            LET popped == SubSeq(current_run, 1, Len(current_run) - 1) IN
            /\ current_run' = popped
            /\ IF popped = <<>>
               THEN /\ delete' = delete \o RunPositions(start[1], index)
                    /\ start' = <<>>
               ELSE UNCHANGED <<delete, start>>
            /\ UNCHANGED abandoned
        ELSE AbandonRun
    /\ index' = index + 1
    /\ UNCHANGED <<f, operators, phase, next_delete, spans, starts, ends,
                   start_idx, end_idx, freelist, locations, new_locals, run, first, events>>

\* The first loop is over: let mut next_delete = 0 and the second loop begins.
EliminateDone ==
    /\ phase = "elim"
    /\ index = Len(operators)
    /\ phase' = "spans"
    /\ index' = 0
    /\ next_delete' = 0
    /\ UNCHANGED <<f, operators, start, current_run, delete, spans, starts, ends,
                   start_idx, end_idx, freelist, locations, new_locals, abandoned,
                   run, first, events>>

\* ------------------------------------------------------ the span loop
\* A freshly inserted ValueSpan (the or_insert argument of handle_op).
NewSpan(pair, location) ==
    [value |-> pair[1], multi_value_index |-> pair[2],
     start |-> location, end |-> location + 1]

\* handle_op's loop over reads: span.end = location + 1 for every pair read.
AfterReads(m, reads, location) ==
    [p \in DOMAIN m |-> IF p \in reads THEN [m[p] EXCEPT !.end = location + 1] ELSE m[p]]

\* AfterWrites with insert in place of entry().or_insert(): every write
\* starts the span anew.
AfterWritesInsert(m, writes, location) ==
    [p \in DOMAIN m \cup writes |->
        IF p \in writes THEN NewSpan(p, location) ELSE m[p]]

\* handle_op's loop over writes: entry(pair).or_insert(new span).end = location + 1.
AfterWrites(m, writes, location) ==
    [p \in DOMAIN m \cup writes |->
        IF p \in writes
        THEN [(IF p \in DOMAIN m THEN m[p] ELSE NewSpan(p, location))
                 EXCEPT !.end = location + 1]
        ELSE m[p]]

\* IsNextDeleted with the test left out: no operator is skipped.
IsNextDeletedNever == FALSE

\* The test that skips a deleted operator.
IsNextDeleted ==
    /\ next_delete < Len(delete)
    /\ At(delete, next_delete) = index

\* One iteration of the second loop on a deleted position: next_delete += 1; continue.
SkipDeleted ==
    /\ phase = "spans"
    /\ index < Len(operators)
    /\ IsNextDeleted
    /\ next_delete' = next_delete + 1
    /\ index' = index + 1
    /\ UNCHANGED <<f, operators, phase, start, current_run, delete, spans, starts,
                   ends, start_idx, end_idx, freelist, locations, new_locals,
                   abandoned, run, first, events>>

\* ReadsHaveSpans with the None arm skipping the read instead of panicking.
ReadsUnchecked(reads) == TRUE

\* handle_op's match on spans.get_mut: every pair read has a span (the Some arm).
ReadsHaveSpans(reads) == reads \subseteq DOMAIN spans

\* One iteration of the second loop on a surviving position: handle_op, which
\* panics on a read of a pair that has no span.
HandleOp ==
    /\ phase = "spans"
    /\ index < Len(operators)
    /\ ~IsNextDeleted
    /\ LET operator == At(operators, index)
           reads == VisitReads(operator)
           writes == VisitWrites(operator)
       IN IF ReadsHaveSpans(reads)
          THEN /\ spans' = AfterWrites(AfterReads(spans, reads, index), writes, index)
               /\ index' = index + 1
               /\ phase' = phase
          ELSE /\ phase' = "panic"
               /\ UNCHANGED <<spans, index>>
    /\ UNCHANGED <<f, operators, start, current_run, delete, next_delete, starts,
                   ends, start_idx, end_idx, freelist, locations, new_locals,
                   abandoned, run, first, events>>

\* ------------------------------------------------------------ the sorts
\* The orders a sort by `key` can leave a collection of spans in: every
\* arrangement ascending in the key (sort_unstable_by_key over the map's
\* values(): the order of equal keys is whatever the build produces).
SortedBy(S, key) ==
    {s \in [1..Cardinality(S) -> S] :
        \A a, b \in 1..Cardinality(S) : a < b => s[a] # s[b] /\ s[a][key] <= s[b][key]}

\* SortSpans over a map whose iteration order differs from call to call (a
\* randomly seeded hasher): equal keys land in any order in every call.
SortSpansAnyOrder ==
    /\ phase = "spans"
    /\ index = Len(operators)
    /\ starts' \in SortedBy(MapValues(spans), "start")
    /\ ends' \in SortedBy(MapValues(spans), "end")
    /\ start_idx' = 0
    /\ end_idx' = 0
    /\ phase' = "sweep"
    /\ UNCHANGED <<f, operators, index, start, current_run, delete, next_delete,
                   spans, freelist, locations, new_locals, abandoned, run, first, events>>

\* The second loop is over: build starts and ends and enter the sweep.  A
\* second call on the same input sorts the same map with the same build, so
\* it leaves equal keys in the order the first call left them.
SortSpans ==
    /\ phase = "spans"
    /\ index = Len(operators)
    /\ starts' \in (IF first = <<>> THEN SortedBy(MapValues(spans), "start")
                                    ELSE {first[1].starts})
    /\ ends' \in (IF first = <<>> THEN SortedBy(MapValues(spans), "end")
                                  ELSE {first[1].ends})
    /\ start_idx' = 0
    /\ end_idx' = 0
    /\ phase' = "sweep"
    /\ UNCHANGED <<f, operators, index, start, current_run, delete, next_delete,
                   spans, freelist, locations, new_locals, abandoned, run, first, events>>

\* ------------------------------------------------------------ the sweep
\* HandleEnd with a free list that is not keyed by type: one bucket for all.
HandleEndOneBucket(span) ==
    LET pair == <<span.value, span.multi_value_index>>
        ty == "I32"
    IN IF pair \in DOMAIN locations
       THEN /\ freelist' = Insert(freelist, ty,
                   Append(IF ty \in DOMAIN freelist THEN freelist[ty] ELSE <<>>,
                          locations[pair]))
            /\ phase' = phase
            /\ UNCHANGED <<locations, new_locals>>
       ELSE /\ phase' = "panic"
            /\ UNCHANGED <<freelist, locations, new_locals>>

\* handle_end: the local of the span's pair goes onto its type's free list;
\* the unwrap() panics when the pair has no local.
HandleEnd(span) ==
    LET pair == <<span.value, span.multi_value_index>>
        ty == TypeOf(pair)
    IN IF pair \in DOMAIN locations
       THEN /\ freelist' = Insert(freelist, ty,
                   Append(IF ty \in DOMAIN freelist THEN freelist[ty] ELSE <<>>,
                          locations[pair]))
            /\ phase' = phase
            /\ UNCHANGED <<locations, new_locals>>
       ELSE /\ phase' = "panic"
            /\ UNCHANGED <<freelist, locations, new_locals>>

\* NewLocal without the locals the body already has.
NewLocalNoOffset == Len(new_locals)

\* The number handle_start gives a new local.
NewLocal == f.locals + Len(new_locals)

\* HandleStart with last() in place of pop(): the local stays on the free list.
HandleStartPeek(span) ==
    LET pair == <<span.value, span.multi_value_index>>
        ty == TypeOf(pair)
    IN /\ IF ty \in DOMAIN freelist /\ freelist[ty] # <<>>
          THEN LET list == freelist[ty] IN
               /\ freelist' = freelist
               /\ locations' = Insert(locations, pair, list[Len(list)])
               /\ new_locals' = new_locals
          ELSE /\ new_locals' = Append(new_locals, ty)
               /\ locations' = Insert(locations, pair, NewLocal)
               /\ freelist' = freelist
       /\ phase' = phase

\* handle_start: pop a free local of the span's type, or else declare a new one.
HandleStart(span) ==
    LET pair == <<span.value, span.multi_value_index>>
        ty == TypeOf(pair)
    IN /\ IF ty \in DOMAIN freelist /\ freelist[ty] # <<>>
          THEN LET list == freelist[ty] IN
               /\ freelist' = [freelist EXCEPT ![ty] = SubSeq(list, 1, Len(list) - 1)]
               /\ locations' = Insert(locations, pair, list[Len(list)])
               /\ new_locals' = new_locals
          ELSE /\ new_locals' = Append(new_locals, ty)
               /\ locations' = Insert(locations, pair, NewLocal)
               /\ freelist' = freelist
       /\ phase' = phase

\* EndsBeforeStart with the start cursor's span read at .end.
EndsBeforeStartsEnd == At(ends, end_idx).end <= At(starts, start_idx).end

\* EndsBeforeStart with the two sides of the comparison swapped.
StartBeforeEnds == At(starts, start_idx).start <= At(ends, end_idx).end

\* EndsBeforeStart with < in place of <=.
EndsStrictlyBeforeStart == At(ends, end_idx).end < At(starts, start_idx).start

\* The comparison that picks an end event while both cursors have spans left.
EndsBeforeStart == At(ends, end_idx).end <= At(starts, start_idx).start

\* Whether this iteration of the sweep handles an end event.
TakesEnd ==
    IF start_idx < Len(starts) /\ end_idx < Len(ends) THEN EndsBeforeStart
    ELSE ~(start_idx < Len(starts))

\* StartSpan indexed by the end cursor.
StartSpanAtEndCursor == At(ends, end_idx)

\* The span a start event passes to handle_start: self.ends[start_idx].
StartSpan == At(ends, start_idx)

\* One iteration of the while loop.
SweepStep ==
    /\ phase = "sweep"
    /\ ~(start_idx >= Len(starts) /\ end_idx >= Len(ends))
    /\ IF TakesEnd
       THEN /\ end_idx' = end_idx + 1
            /\ start_idx' = start_idx
            /\ HandleEnd(At(ends, end_idx))
            /\ events' = Append(events, [kind |-> "end", span |-> At(ends, end_idx)])
       ELSE /\ start_idx' = start_idx + 1
            /\ end_idx' = end_idx
            /\ HandleStart(StartSpan)
            /\ events' = Append(events, [kind |-> "start", span |-> StartSpan])
    /\ UNCHANGED <<f, operators, index, start, current_run, delete, next_delete,
                   spans, starts, ends, abandoned, run, first>>

\* The while loop is over: compute returns locations.
Return ==
    /\ phase = "sweep"
    /\ start_idx >= Len(starts) /\ end_idx >= Len(ends)
    /\ phase' = "done"
    /\ UNCHANGED <<f, operators, index, start, current_run, delete, next_delete,
                   spans, starts, ends, start_idx, end_idx, freelist, locations,
                   new_locals, abandoned, run, first, events>>

\* A second call of Locations::compute on the same f and body: the first
\* call's result is kept for comparison and every field starts afresh.
ComputeAgain ==
    /\ phase = "done"
    /\ run = 1
    /\ run' = 2
    /\ first' = <<[locations |-> locations, delete |-> delete,
                   new_locals |-> new_locals, starts |-> starts, ends |-> ends]>>
    /\ phase' = "elim"
    /\ index' = 0
    /\ start' = <<>>
    /\ current_run' = <<>>
    /\ delete' = <<>>
    /\ next_delete' = 0
    /\ spans' = EmptyMap
    /\ starts' = <<>>
    /\ ends' = <<>>
    /\ start_idx' = 0
    /\ end_idx' = 0
    /\ freelist' = EmptyMap
    /\ locations' = EmptyMap
    /\ new_locals' = <<>>
    /\ events' = <<>>
    /\ UNCHANGED <<f, operators, abandoned>>

\* ------------------------------------------------------- specifications
Next ==
    \/ EliminateStep
    \/ EliminateDone
    \/ SkipDeleted
    \/ HandleOp
    \/ SortSpans
    \/ SweepStep
    \/ Return

\* One call of Locations::compute on every drawn input.
Spec == Init /\ [][Next]_vars

NextTwice == Next \/ ComputeAgain

\* Two calls of Locations::compute, one after the other, on every drawn input.
SpecTwice == Init /\ [][NextTwice]_vars

\* ------------------------------------------------- vocabulary of the claims
\* The stream positions.
Positions == 0..(Len(operators) - 1)
\* The positions the eliminator left in the stream.
Surviving == {p \in Positions : p \notin Range(delete)}
\* The surviving positions that write, and that read or write, a pair.
WritesOf(pair) == {p \in Surviving : pair \in VisitWrites(At(operators, p))}
UsesOf(pair) ==
    {p \in Surviving : pair \in VisitWrites(At(operators, p)) \cup VisitReads(At(operators, p))}
\* The pairs some surviving operation writes.
WrittenPairs == {pair \in Pairs(f.types) : WritesOf(pair) # {}}
Min(S) == CHOOSE x \in S : \A y \in S : x <= y
Max(S) == CHOOSE x \in S : \A y \in S : x >= y
\* Two half-open intervals overlap.
Overlap(a, b) == a.start < b.end /\ b.start < a.end
\* The primitive types of the drawn body.
Types == {TypeOf(pair) : pair \in Pairs(f.types)}
\* How many new locals of type ty the sweep declared.
Declared(ty) == Cardinality({k \in 1..Len(new_locals) : new_locals[k] = ty})
\* How many intervals of type ty are live at position p, and the most at any position.
LiveAt(ty, p) ==
    Cardinality({pair \in DOMAIN spans :
                    TypeOf(pair) = ty /\ spans[pair].start <= p /\ p < spans[pair].end})
MaxLive(ty) == Max({LiveAt(ty, p) : p \in Positions} \cup {0})

\* ------------------------------------------------------------------ claims
\* C1: once compute has returned, no two distinct (value, sub-index) pairs
\* whose intervals overlap have the same slot in the locations map.
C1_OverlappingPairsGetDistinctSlots ==
    phase = "done" =>
        \A a, b \in DOMAIN locations :
            (a # b /\ Overlap(spans[a], spans[b])) => locations[a] # locations[b]

\* C2: for every primitive type, the sweep declares no more new locals of
\* that type than the largest number of intervals of that type live at one
\* stream position.
C2_SlotsAtMostMaxLive ==
    phase = "done" => \A ty \in Types : Declared(ty) <= MaxLive(ty)

\* C3: once the sweep has terminated, the locations map has an entry for
\* exactly the pairs that some surviving operation writes.
C3_LocationsCoverWrittenPairs ==
    phase = "done" => DOMAIN locations = WrittenPairs

\* C3 witness: a finished run that deleted a span of operators and assigned
\* slots to two pairs, with a pair of the body left unassigned.
C3_Witness ==
    /\ phase = "done"
    /\ delete # <<>>
    /\ Cardinality(DOMAIN locations) = 2
    /\ DOMAIN locations # Pairs(f.types)

\* C4: at every point, a pair's slot is a new local declared with the pair's
\* type, and every slot in a free-list bucket was declared with the
\* bucket's type (so no slot is held by pairs of two types).
C4_SlotTypeMatchesPairType ==
    /\ \A pair \in DOMAIN locations :
          /\ locations[pair] - f.locals \in 0..(Len(new_locals) - 1)
          /\ At(new_locals, locations[pair] - f.locals) = TypeOf(pair)
    /\ \A ty \in DOMAIN freelist : \A local \in Range(freelist[ty]) :
          /\ local - f.locals \in 0..(Len(new_locals) - 1)
          /\ At(new_locals, local - f.locals) = ty

\* C4 witness: slots of two types are declared, one is back in its bucket
\* and a pair has taken a slot out of a bucket.
C4_Witness ==
    /\ phase = "done"
    /\ Range(new_locals) = {"I32", "I64"}
    /\ Cardinality(DOMAIN locations) > Len(new_locals)
    /\ \A ty \in {"I32", "I64"} : ty \in DOMAIN freelist /\ freelist[ty] # <<>>

\* C5: after the span loop, exactly the pairs written by a surviving
\* operation have a span; its start is the position of the first surviving
\* write, its end is one past the last surviving operation that reads or
\* writes the pair, and end > start.
C5_SpansAreFirstWriteToLastUse ==
    phase \in {"sweep", "done"} =>
        /\ DOMAIN spans = WrittenPairs
        /\ \A pair \in DOMAIN spans :
              /\ spans[pair].value = pair[1]
              /\ spans[pair].multi_value_index = pair[2]
              /\ spans[pair].start = Min(WritesOf(pair))
              /\ spans[pair].end = Max(UsesOf(pair)) + 1
              /\ spans[pair].end > spans[pair].start

\* C5 witness: a pair written twice and used after its second write, so a
\* later write could have moved start.
C5_Witness ==
    /\ phase = "sweep"
    /\ \E pair \in DOMAIN spans :
          /\ Cardinality(WritesOf(pair)) >= 2
          /\ spans[pair].end > Max(WritesOf(pair)) + 1

\* Whether ops is only Sets and Gets in last-in-first-out nesting over the
\* unmatched Sets in `stack`: every Get is of the pair of the most recent
\* unmatched Set, and every Set is matched by the end.
RECURSIVE Nested(_, _)
Nested(ops, stack) ==
    IF ops = <<>> THEN stack = <<>>
    ELSE LET op == Head(ops) IN
         IF op.kind = "Set"
         THEN Nested(Tail(ops), <<<<op.value, op.index>>>> \o stack)
         ELSE /\ op.kind = "Get"
              /\ stack # <<>>
              /\ Head(stack) = <<op.value, op.index>>
              /\ Nested(Tail(ops), Tail(stack))

\* C6: for a body of only Sets and Gets in last-in-first-out nesting with
\* every Set matched, the eliminator deletes every position, no span is
\* built, and locations and new_locals stay empty.
C6_NestedStreamIsDeletedWhole ==
    Nested(operators, <<>>) =>
        /\ phase # "panic"
        /\ phase # "elim" =>
              /\ delete = [k \in 1..Len(operators) |-> k - 1]
              /\ spans = EmptyMap
              /\ locations = EmptyMap
              /\ new_locals = <<>>

\* C6 witness: Set(A), Set(B), Get(B), Get(A) has been through compute.
C6_Witness ==
    /\ phase = "done"
    /\ Nested(operators, <<>>)
    /\ Len(operators) = 4
    /\ operators[1].kind = "Set" /\ operators[2].kind = "Set"
    /\ operators[1] # operators[2]

\* The body Set(A), Set(B), Get(A), Get(B): the Gets in the Sets' order.
IsCrossedStream ==
    /\ Len(operators) = 4
    /\ operators[1].kind = "Set" /\ operators[2].kind = "Set"
    /\ operators[1] # operators[2]
    /\ operators[3] = GetOp(operators[1].value, operators[1].index)
    /\ operators[4] = GetOp(operators[2].value, operators[2].index)

\* C7: no position from the start of an abandoned run up to the operation
\* that made the eliminator abandon it (a Get that does not match the top
\* of the run, or an operation that is neither Set nor Get) is ever
\* deleted; Set(A), Set(B), Get(A), Get(B) deletes nothing.
C7_AbandonedRunIsNeverDeleted ==
    /\ abandoned \cap Range(delete) = {}
    /\ (IsCrossedStream /\ phase # "elim") => delete = <<>>

\* C7 witness: compute has returned on a body with an abandoned run that
\* holds, after its first Set, a Set directly followed by its Get.
C7_Witness ==
    /\ phase = "done"
    /\ \E p \in abandoned :
          /\ p + 1 \in abandoned
          /\ p - 1 \in abandoned
          /\ At(operators, p).kind = "Set"
          /\ At(operators, p + 1) = GetOp(At(operators, p).value, At(operators, p).index)

\* The first surviving position that reads a pair no earlier surviving
\* position writes, as a set: empty when there is none.
ReadBeforeWrite ==
    LET bad == {p \in Surviving :
                  \E pair \in VisitReads(At(operators, p)) :
                      \A q \in WritesOf(pair) : q >= p}
    IN IF bad = {} THEN {} ELSE {Min(bad)}

\* C8: when a surviving operation reads a pair that no earlier surviving
\* operation writes, compute panics at that operation, with nothing
\* assigned or declared, and never returns a result; it panics for no
\* other reason.
C8_ReadBeforeWriteAborts ==
    phase # "elim" =>
        /\ phase \in {"sweep", "done"} => ReadBeforeWrite = {}
        /\ phase = "spans" => \A p \in ReadBeforeWrite : index <= p
        /\ phase = "panic" =>
              /\ ReadBeforeWrite = {index}
              /\ locations = EmptyMap
              /\ new_locals = <<>>

\* C8 witness: the panic, at a Get that follows a surviving write of
\* another pair.
C8_Witness ==
    /\ phase = "panic"
    /\ spans # EmptyMap
    /\ At(operators, index).kind = "Get"

\* C9: on ExampleStream with X and Z of one type, Y of another and no
\* existing locals, nothing is deleted, X and Z get the same slot of their
\* type, Y gets another slot of its type, and two new locals are declared.
C9_EndToEndExample ==
    (operators = ExampleStream /\ f.locals = 0) =>
        /\ phase # "panic"
        /\ phase = "done" =>
              /\ delete = <<>>
              /\ DOMAIN locations = {<<"X", 0>>, <<"Y", 0>>, <<"Z", 0>>}
              /\ locations[<<"X", 0>>] = locations[<<"Z", 0>>]
              /\ locations[<<"Y", 0>>] # locations[<<"X", 0>>]
              /\ Len(new_locals) = 2
              /\ At(new_locals, locations[<<"X", 0>>]) = "I32"
              /\ At(new_locals, locations[<<"Y", 0>>]) = "I64"

\* C9 witness: compute has returned on the example.
C9_Witness ==
    /\ operators = ExampleStream
    /\ f.locals = 0
    /\ phase = "done"

EventPair(e) == <<e.span.value, e.span.multi_value_index>>
StartEventsOf(pair) ==
    {k \in 1..Len(events) : events[k].kind = "start" /\ EventPair(events[k]) = pair}
EndEventsOf(pair) ==
    {k \in 1..Len(events) : events[k].kind = "end" /\ EventPair(events[k]) = pair}
IsStartEvent(e) == e.kind = "start"
\* The calls of handle_start, in order.
StartEvents == SelectSeq(events, IsStartEvent)

\* C11: every end event of the sweep comes after the start event of its own
\* interval, so handle_end finds a slot and compute never panics in the sweep.
C11_StartEventBeforeOwnEndEvent ==
    /\ \A k \in 1..Len(events) :
          events[k].kind = "end" => \E j \in StartEventsOf(EventPair(events[k])) : j < k
    /\ \A k \in 1..Len(events) :
          events[k].kind = "end" => EventPair(events[k]) \in DOMAIN locations
    /\ phase = "panic" => events = <<>>

\* C11 witness: the sweep has handled an end event while a span was still
\* to be started, and has finished.
C11_Witness ==
    /\ phase = "done"
    /\ \E j, k \in 1..Len(events) :
          j < k /\ events[j].kind = "end" /\ events[k].kind = "start"

\* C12: the k-th call of handle_start is for a span that starts where the
\* k-th span of the start-sorted list starts, so start events come in
\* ascending order of start.
C12_StartEventsInStartOrder ==
    phase \in {"sweep", "done"} =>
        \A k \in 1..Len(StartEvents) : StartEvents[k].span.start = starts[k].start

\* C13: for two intervals I and J with I.end <= J.start, the end event of I
\* comes before the start event of J.
C13_EndEventBeforeLaterStartEvent ==
    \A a, b \in DOMAIN spans :
        (a # b /\ spans[a].end <= spans[b].start) =>
            \A k \in StartEventsOf(b) : \E j \in EndEventsOf(a) : j < k

\* Every read of the raw stream is of a pair that an earlier operation writes.
RawStreamValid ==
    \A p \in Positions : \A pair \in VisitReads(At(operators, p)) :
        \E q \in 0..(p - 1) : pair \in VisitWrites(At(operators, q))

\* C14: on a raw stream in which every read follows a write of its pair,
\* the same holds of the surviving stream, so compute does not panic.
C14_ValidStreamNeverPanics ==
    RawStreamValid => (phase # "panic" /\ (phase # "elim" => ReadBeforeWrite = {}))

\* The maximal blocks of consecutive deleted positions, as <<first, last>>.
DeletedBlocks ==
    {b \in Range(delete) \X Range(delete) :
        /\ b[1] <= b[2]
        /\ \A p \in b[1]..b[2] : p \in Range(delete)
        /\ b[1] - 1 \notin Range(delete)
        /\ b[2] + 1 \notin Range(delete)}

\* C15: the delete list is strictly ascending; every block of consecutive
\* deleted positions starts at a Set, ends at a Get and holds only Sets and
\* Gets in balanced last-in-first-out nesting; and the span loop's cursor
\* into the list skips exactly the deleted positions.
C15_DeleteListIsAscendingNestedRuns ==
    /\ \A k \in 1..(Len(delete) - 1) : delete[k] < delete[k + 1]
    /\ Range(delete) \subseteq Positions
    /\ \A b \in DeletedBlocks :
          /\ At(operators, b[1]).kind = "Set"
          /\ At(operators, b[2]).kind = "Get"
          /\ Nested(SubSeq(operators, b[1] + 1, b[2] + 1), <<>>)
    /\ phase = "spans" =>
          /\ next_delete = Cardinality({d \in Range(delete) : d < index})
          /\ index < Len(operators) =>
                ((next_delete < Len(delete) /\ At(delete, next_delete) = index)
                    <=> index \in Range(delete))

\* C15 witness: the span loop has handled a surviving operator, skipped
\* the deleted run after it, and reached the end of the body.
C15_Witness ==
    /\ phase = "spans"
    /\ delete # <<>>
    /\ delete[1] > 0
    /\ next_delete = Len(delete)
    /\ index = Len(operators)

\* C16: the sweep makes one call of handle_start and one of handle_end for
\* every span, one call an iteration, can always take its next iteration
\* or leave the loop, and has made exactly 2n calls for n spans when
\* compute returns.
C16_SweepTakesTwoEventsPerSpan ==
    LET n == Cardinality(DOMAIN spans) IN
    /\ phase \in {"sweep", "done"} =>
          /\ Len(events) = start_idx + end_idx
          /\ Len(starts) = n /\ Len(ends) = n
          /\ start_idx <= n /\ end_idx <= n
          /\ \A pair \in Pairs(f.types) :
                /\ Cardinality(StartEventsOf(pair)) <= 1
                /\ Cardinality(EndEventsOf(pair)) <= 1
    /\ phase = "sweep" => ENABLED (SweepStep \/ Return)
    /\ phase = "done" =>
          /\ Len(events) = 2 * n
          /\ \A pair \in DOMAIN spans :
                /\ Cardinality(StartEventsOf(pair)) = 1
                /\ Cardinality(EndEventsOf(pair)) = 1

\* C16 witness: compute has returned after a sweep over three spans.
C16_Witness ==
    /\ phase = "done"
    /\ Cardinality(DOMAIN spans) = 3
    /\ Len(events) = 6

\* The slots on the free list, over all buckets.
FreeSlots == UNION {Range(freelist[ty]) : ty \in DOMAIN freelist}
\* The slot numbers of the new locals declared so far.
NewSlots == f.locals..(f.locals + Len(new_locals) - 1)

\* C17: every slot in the locations map or on the free list is one of the
\* new locals, numbered from the count of existing locals on; the k-th new
\* local is slot L + k and is assigned to a pair of its type; no existing
\* local is assigned or freed.
C17_SlotsAreTheNewLocals ==
    /\ \A pair \in DOMAIN locations : locations[pair] \in NewSlots
    /\ FreeSlots \subseteq NewSlots
    /\ \A k \in 0..(Len(new_locals) - 1) :
          \E pair \in DOMAIN locations :
              /\ locations[pair] = f.locals + k
              /\ TypeOf(pair) = At(new_locals, k)
    /\ \A k \in 1..Len(StartEvents) :
          LET before == {EventPair(StartEvents[j]) : j \in 1..(k - 1)}
              slot == locations[EventPair(StartEvents[k])]
          IN (\A pair \in before : locations[pair] # slot) =>
                 slot = f.locals + Cardinality({locations[pair] : pair \in before})

\* C17 witness: with two existing locals, two new locals are declared and
\* one of them has been reused.
C17_Witness ==
    /\ phase = "done"
    /\ f.locals = 2
    /\ Len(new_locals) = 2
    /\ Cardinality(DOMAIN locations) = 3

\* The pairs whose start event has been handled and whose end event has not.
Active == {pair \in Pairs(f.types) : StartEventsOf(pair) # {} /\ EndEventsOf(pair) = {}}

\* C18: during the sweep the slots of the started and not yet ended pairs
\* are pairwise distinct, none of them is on the free list, and no slot is
\* on the free list twice.
C18_HeldAndFreeSlotsAreDisjoint ==
    /\ \A a, b \in Active : a # b => locations[a] # locations[b]
    /\ \A a \in Active : locations[a] \notin FreeSlots
    /\ \A ty \in DOMAIN freelist : Len(freelist[ty]) = Cardinality(Range(freelist[ty]))
    /\ \A t1, t2 \in DOMAIN freelist :
          t1 # t2 => Range(freelist[t1]) \cap Range(freelist[t2]) = {}

\* C18 witness: two pairs hold slots, one after taking a slot off the free
\* list, while another slot is on the free list.
C18_Witness ==
    /\ phase = "sweep"
    /\ Cardinality(Active) = 2
    /\ FreeSlots # {}

\* C19: the span loop and the sweep leave the delete list as it is, and a
\* step of the sweep only appends to new_locals and only adds entries to
\* the locations map.
C19_ResultsAreNeverRevised ==
    [][/\ phase \in {"spans", "sweep"} => delete' = delete
       /\ phase = "sweep" =>
             /\ Len(new_locals') >= Len(new_locals)
             /\ SubSeq(new_locals', 1, Len(new_locals)) = new_locals
             /\ \A pair \in DOMAIN locations :
                   /\ pair \in DOMAIN locations'
                   /\ locations'[pair] = locations[pair]]_vars

\* C19 witness: compute has returned with a deleted run, a declared local
\* and a reused slot.
C19_Witness ==
    /\ phase = "done"
    /\ Len(delete) = 2
    /\ Len(new_locals) = 1
    /\ Cardinality(DOMAIN locations) = 2

\* C20: in the sweep the end cursor never passes the start cursor, so the
\* branch that drains start events once the end events are exhausted is
\* not taken.
C20_EndCursorNeverPassesStartCursor ==
    /\ end_idx <= start_idx
    /\ ~(start_idx < Len(starts) /\ ~(end_idx < Len(ends)))

\* C20 witness: every started span has ended and spans remain to start.
C20_Witness ==
    /\ phase = "sweep"
    /\ end_idx = start_idx
    /\ start_idx > 0
    /\ start_idx < Len(starts)

====
